---- MODULE Spec2Model ----
(***************************************************************************)
(* Model of hashed_monitor_bot.py: one scheduled run polls two feeds,      *)
(* filters by time window, removes mentions already in the sheet, appends  *)
(* the new rows, posts them to Slack and advances the "since" watermark.   *)
(*                                                                         *)
(* Instants are whole seconds since the epoch (UTC).  A cell or feed text  *)
(* that is meant to hold an instant is a record [k, t]: k = "iso" for a    *)
(* text that dateutil parses to instant t, "bad" for a text it cannot      *)
(* parse, "blank" for a text of white space only, "empty" for "" and       *)
(* "none" for a missing value (None).                                      *)
(* A character string that the code inspects (host, query key) is a        *)
(* sequence of one-character strings.                                      *)
(***************************************************************************)
EXTENDS Integers, Sequences, FiniteSets, TLC

VARIABLES
    config,         \* the settings the environment provides (names of those set)
    clock,          \* wall clock (datetime.now) at the latest run start
    pc,             \* position of the current run in run()
    now_utc,        \* run(): now_utc
    midnight_utc,   \* run(): midnight_utc, from a clock reading of its own
    since_dt,       \* run(): since_dt after the KST-midnight clamp
    mode,           \* "normal" | "bootstrap" | "reset": branch taken after meta_get_since
    meta_ws,        \* worksheet "meta": sequence of rows [key, val], header first
    ws,             \* sheet1: sequence of rows, as stored
    rss_feed,       \* fetch_google_news_rss: the feed.entries it went through
    rss_results,    \* what fetch_google_news_rss returned
    gdelt_feed,     \* fetch_gdelt: the "articles" of the answer it used
    gdelt_attempt,  \* fetch_gdelt: attempt counter of the retry loop
    gdelt_waits,    \* fetch_gdelt: seconds waited after each failed attempt so far
    gdelt_status,   \* fetch_gdelt: "pending" | "returned" (from an attempt) | "gave_up"
    all_results,    \* run(): all_results
    filtered,       \* run(): filtered
    existing_ids,   \* run(): existing_ids
    new_mentions,   \* run(): new_mentions
    sent,           \* number of individual Slack alerts posted successfully
    notified,       \* log of Slack notifications attempted in this run
    storeOps,       \* log of sheet operations of this run, in order
    failure,        \* why the run failed: "none" | "config" | "store" | "source" | "notify"
    meta0,          \* meta_ws as it was when the run started
    ws0,            \* ws as it was when the run started
    prev_ok,        \* the previous run fetched and ended successfully
    prev_results,   \* what the two sources returned in the previous run
    reset_at,       \* start instant of the latest run that reset a broken watermark (0: none)
    orphaned        \* ids persisted by a run that then failed while notifying

vars == <<config, clock, pc, now_utc, midnight_utc, since_dt, mode, meta_ws, ws, rss_feed,
          rss_results, gdelt_feed, gdelt_attempt, gdelt_waits, gdelt_status,
          all_results, filtered, existing_ids, new_mentions, sent, notified, storeOps, failure, meta0, ws0, prev_ok,
          prev_results, reset_at, orphaned>>

----------------------------------------------------------------------------
(* Program constants *)

MAX_SLACK_ALERTS == 10
SHEET_ID_LOAD_LIMIT == 8000
MAX_LOOKBACK_DAYS == 7
SLACK_RETRIES == 3
GDELT_RETRIES == 3

Day == 24 * 60 * 60
KstOffset == 9 * 60 * 60
FutureSkew == 5 * 60

(* Bounds of the model *)

BigLen == 12

----------------------------------------------------------------------------
(* Texts holding instants *)

Iso(t) == [k |-> "iso", t |-> t]
BadText == [k |-> "bad", t |-> 0]
BlankText == [k |-> "blank", t |-> 0]
EmptyText == [k |-> "empty", t |-> 0]
NoText == [k |-> "none", t |-> 0]

\* Python truthiness of an optional text: None and "" are falsy.
Truthy(v) == v.k \in {"iso", "bad", "blank"}

\* str.strip(): a text of white space only becomes "".
Strip(v) == IF v.k = "blank" THEN EmptyText ELSE v

\* A parser that yields an instant for any non-empty text.
SafeParseDtLenient(value) ==
    IF ~Truthy(value) THEN NoText ELSE Iso(value.t)

\* safe_parse_dt: None (NoText) when the value is falsy or does not parse,
\* else the instant in UTC.
SafeParseDt(value) ==
    IF ~Truthy(value) THEN NoText
    ELSE IF value.k = "iso" THEN Iso(value.t)
    ELSE NoText     \* dateutil raises, or returns nothing

\* today_midnight_kst_utc, for the instant the clock shows when it is called.
TodayMidnightKstUtc(now) == ((now + KstOffset) \div Day) * Day - KstOffset

----------------------------------------------------------------------------
(* URLs: the result of urlparse, [scheme, netloc, path, query, fragment];   *)
(* query is the parse_qsl list of [k, v] pairs, k a sequence of characters. *)

UpperLetters == <<"A", "B", "C", "D", "E", "F", "G", "H", "I", "J", "K", "L", "M",
                 "N", "O", "P", "Q", "R", "S", "T", "U", "V", "W", "X", "Y", "Z">>
LowerLetters == <<"a", "b", "c", "d", "e", "f", "g", "h", "i", "j", "k", "l", "m",
                 "n", "o", "p", "q", "r", "s", "t", "u", "v", "w", "x", "y", "z">>

LowerOf == [c \in {UpperLetters[i] : i \in DOMAIN UpperLetters} |->
               LowerLetters[CHOOSE i \in DOMAIN UpperLetters : UpperLetters[i] = c]]

\* str.lower() on one character
LowerChar(c) == IF c \in DOMAIN LowerOf THEN LowerOf[c] ELSE c

Lower(s) == [i \in DOMAIN s |-> LowerChar(s[i])]

StartsWith(s, prefix) ==
    /\ Len(s) >= Len(prefix)
    /\ \A i \in DOMAIN prefix : s[i] = prefix[i]

UtmPrefix == <<"u", "t", "m", "_">>

TrackingKeys == { <<"f", "b", "c", "l", "i", "d">>,
                  <<"g", "c", "l", "i", "d">>,
                  <<"m", "c", "_", "c", "i", "d">>,
                  <<"m", "c", "_", "e", "i", "d">> }

\* A tracking test that compares the key as written.
IsTrackingCaseSensitive(k) ==
    StartsWith(k, UtmPrefix) \/ k \in TrackingKeys

IsTracking(k) ==
    LET lk == Lower(k)
    IN  StartsWith(lk, UtmPrefix) \/ lk \in TrackingKeys

RECURSIVE FilterQuery(_)
FilterQuery(q) ==
    IF q = <<>> THEN <<>>
    ELSE IF IsTracking(Head(q).k) THEN FilterQuery(Tail(q))
    ELSE <<Head(q)>> \o FilterQuery(Tail(q))

NormalizeUrl(url) ==
    [scheme   |-> url.scheme,
     netloc   |-> Lower(url.netloc),
     path     |-> url.path,
     query    |-> FilterQuery(url.query),
     fragment |-> ""]

\* make_id: sha256 of "source|normalized url", taken as collision-free, so the
\* digest is represented by the pair it is computed from.
MakeId(source, url) == <<source, NormalizeUrl(url)>>

----------------------------------------------------------------------------
(* Slack *)

SlackResponses == {"ok", "rate_limited", "error", "exception"}

\* slack_post_with_retry from attempt `attempt` on, given the answer Slack
\* gives to each request: "ok" (True), "fail" (False) or "raise" (requests
\* or r.json() raised, which nothing in the loop catches).
RECURSIVE SlackPostFrom(_, _, _)
SlackPostFrom(resps, attempt, retries) ==
    IF attempt > retries THEN "fail"
    ELSE IF resps[attempt] = "exception" THEN "raise"
    ELSE IF resps[attempt] = "ok" THEN "ok"
    ELSE IF resps[attempt] = "rate_limited"
         THEN SlackPostFrom(resps, attempt + 1, retries)
    ELSE "fail"

SlackPostWithRetry(resps, retries) == SlackPostFrom(resps, 1, retries)

\* What slack_post_with_retry can come to, over every way Slack may answer
\* its requests.
SlackOutcomes ==
    {SlackPostWithRetry(resps, SLACK_RETRIES) :
        resps \in [1..SLACK_RETRIES -> SlackResponses]}

\* slack_post_mention, given what slack_post_with_retry came to: raises
\* unless the post returned True.
SlackPostMention(r) == IF r = "ok" THEN "ok" ELSE "raise"

\* slack_post_digest, given what slack_post_with_retry came to: the value
\* returned is dropped, only an exception leaves the function abnormally.
SlackPostDigest(r) == IF r = "raise" THEN "raise" ELSE "returned"

----------------------------------------------------------------------------
(* Settings *)

Required == {"SLACK_CHANNEL", "SLACK_BOT_TOKEN", "GOOGLE_SHEET_ID",
             "GOOGLE_SERVICE_ACCOUNT_JSON"}

\* slack_headers raises unless the token starts with "xoxb-".
SlackHeadersRaises(cfg) == "SLACK_BOT_TOKEN" \notin cfg

\* get_gspread_client raises before it builds the credentials.
GspreadClientRaises(cfg) ==
    "GOOGLE_SERVICE_ACCOUNT_JSON" \notin cfg \/ "GOOGLE_SHEET_ID" \notin cfg

\* run() raises on its first line.
RunRaisesAtEntry(cfg) == "SLACK_CHANNEL" \notin cfg

----------------------------------------------------------------------------
(* Google Sheets *)

\* Column A of the header row: a caption, never equal to a digest.
HeaderId == <<"id", [scheme |-> "", netloc |-> <<>>, path |-> "",
                     query |-> <<>>, fragment |-> ""]>>

HeaderRow == [id |-> HeaderId, fetched_at |-> NoText, published_at |-> NoText,
              source |-> "source", title |-> "title", url |-> HeaderId[2]]

\* ws.col_values(1)
ColValues1(sheet) == [i \in DOMAIN sheet |-> sheet[i].id]

Range(s) == {s[i] : i \in DOMAIN s}

\* sheet_get_existing_ids
SheetGetExistingIds(sheet, limit) ==
    LET col == ColValues1(sheet)
        ids == IF col = <<>> THEN <<>> ELSE Tail(col)
        cut == IF Len(ids) > limit
               THEN SubSeq(ids, Len(ids) - limit + 1, Len(ids))
               ELSE ids
    IN  IF col = <<>> THEN {} ELSE Range(cut)

\* sheet_append_rows
SheetAppendRows(sheet, rows) == IF rows = <<>> THEN sheet ELSE sheet \o rows

MetaHeader == [key |-> "key", val |-> BadText]

\* Index of the first row after the header whose key is "since", 0 if none.
SinceRow(values) ==
    IF \E i \in 2..Len(values) : values[i].key = "since"
    THEN CHOOSE i \in 2..Len(values) :
            /\ values[i].key = "since"
            /\ \A j \in 2..(i - 1) : values[j].key # "since"
    ELSE 0

\* meta_get_since
MetaGetSince(values) ==
    LET i == SinceRow(values)
    IN  IF i = 0 THEN NoText
        ELSE IF Truthy(values[i].val) THEN Strip(values[i].val)
        ELSE NoText

\* meta_set_since
MetaSetSince(values, iso_time) ==
    LET i == SinceRow(values)
    IN  IF i # 0 THEN [values EXCEPT ![i].val = iso_time]
        ELSE Append(values, [key |-> "since", val |-> iso_time])

----------------------------------------------------------------------------
(* Sources *)

\* fetch_google_news_rss, given the entries of the parsed feed.
RECURSIVE FetchGoogleNewsRss(_)
FetchGoogleNewsRss(entries) ==
    IF entries = <<>> THEN <<>>
    ELSE LET e == Head(entries)
             published_dt == IF Truthy(e.published)
                             THEN SafeParseDt(e.published) ELSE NoText
         IN  IF published_dt.k # "iso"
             THEN FetchGoogleNewsRss(Tail(entries))
             ELSE <<[source |-> "GoogleNewsRSS", title |-> e.title,
                     url |-> e.link, published_at |-> Iso(published_dt.t)]>>
                  \o FetchGoogleNewsRss(Tail(entries))

\* fetch_google_news_rss reads entry.title and entry.link as attributes:
\* feedparser raises AttributeError for an entry that lacks one of them, and
\* nothing in fetch_google_news_rss or run() catches it.
RssRaises(entries) ==
    \E i \in DOMAIN entries :
        "title" \notin DOMAIN entries[i] \/ "link" \notin DOMAIN entries[i]

\* fetch_gdelt, the body of one successful attempt: the articles of the JSON.
RECURSIVE ParseGdelt(_)
ParseGdelt(articles) ==
    IF articles = <<>> THEN <<>>
    ELSE LET a == Head(articles)
             published_dt == IF Truthy(a.seendate) /\ a.seendate.k = "iso"
                             THEN Iso(a.seendate.t) ELSE NoText
         IN  IF published_dt.k # "iso"
             THEN ParseGdelt(Tail(articles))
             ELSE <<[source |-> "GDELT", title |-> a.title,
                     url |-> a.url, published_at |-> Iso(published_dt.t)]>>
                  \o ParseGdelt(Tail(articles))

GdeltFailures == {"http_status", "empty_body", "non_json", "exception"}

\* A retry loop that goes round once more than `retries` times.
MoreAttemptsOffByOne(attempt, retries) == attempt <= retries

\* fetch_gdelt: `for attempt in range(1, retries + 1)` has a next round.
MoreAttempts(attempt, retries) == attempt + 1 \in 1..retries

\* fetch_gdelt: the seconds slept between failed attempt `attempt` and the
\* next one.  The loop body has no sleep: `continue` and the except clause
\* go straight to the next request.
GdeltWait(attempt) == 0

----------------------------------------------------------------------------
(* run(): the pure parts *)

TooOldCutoff(now) == now - MAX_LOOKBACK_DAYS * Day
FutureCutoff(now) == now + FutureSkew

\* The clamp of since_dt to today's midnight (KST).
ClampSince(since, midnight) == IF since < midnight THEN midnight ELSE since

\* One pass of the date filter loop: is m appended to filtered?
Accepted(m, now, midnight, since) ==
    LET pub_dt == SafeParseDt(m.published_at)
    IN  /\ pub_dt.k = "iso"
        /\ ~(pub_dt.t < TooOldCutoff(now))
        /\ ~(pub_dt.t > FutureCutoff(now))
        /\ pub_dt.t >= midnight
        /\ pub_dt.t >= since

DateFilter(results, now, midnight, since) ==
    SelectSeq(results, LAMBDA m : Accepted(m, now, midnight, since))

\* The dedup loop: existing is read for every candidate and never written.
IsNew(m, existing) == MakeId(m.source, NormalizeUrl(m.url)) \notin existing

\* A dedup that also drops a candidate whose id an earlier candidate has.
DedupBatchInternal(cands, existing, fetched_at) ==
    LET Id(i) == MakeId(cands[i].source, NormalizeUrl(cands[i].url))
        idx == {i \in DOMAIN cands :
                    /\ Id(i) \notin existing
                    /\ \A j \in 1..(i - 1) : Id(j) # Id(i)}
        Nth(k) == CHOOSE i \in idx : Cardinality({j \in idx : j < i}) = k - 1
    IN  [k \in 1..Cardinality(idx) |->
            [source |-> cands[Nth(k)].source, title |-> cands[Nth(k)].title,
             url |-> NormalizeUrl(cands[Nth(k)].url),
             published_at |-> cands[Nth(k)].published_at,
             id |-> Id(Nth(k)), fetched_at |-> fetched_at]]

Dedup(cands, existing, fetched_at) ==
    LET keep == SelectSeq(cands, LAMBDA m : IsNew(m, existing))
    IN  [i \in DOMAIN keep |->
            [source |-> keep[i].source, title |-> keep[i].title,
             url |-> NormalizeUrl(keep[i].url),
             published_at |-> keep[i].published_at,
             id |-> MakeId(keep[i].source, NormalizeUrl(keep[i].url)),
             fetched_at |-> fetched_at]]

\* One pass of the dedup loop on the dict m itself: m["url"] is overwritten
\* with the normalized URL, and a new m also gets "id" and "fetched_at".
Stamped(m, existing, fetched_at) ==
    IF IsNew(m, existing)
    THEN [source |-> m.source, title |-> m.title,
          url |-> NormalizeUrl(m.url), published_at |-> m.published_at,
          id |-> MakeId(m.source, NormalizeUrl(m.url)),
          fetched_at |-> fetched_at]
    ELSE [source |-> m.source, title |-> m.title,
          url |-> NormalizeUrl(m.url), published_at |-> m.published_at]

Rows(mentions) ==
    [i \in DOMAIN mentions |->
        [id |-> mentions[i].id, fetched_at |-> mentions[i].fetched_at,
         published_at |-> mentions[i].published_at,
         source |-> mentions[i].source, title |-> mentions[i].title,
         url |-> mentions[i].url]]

Min(a, b) == IF a < b THEN a ELSE b

\* A remainder that starts at the cap-th mention instead of after it.
RemainingFromCap(mentions) == SubSeq(mentions, MAX_SLACK_ALERTS, Len(mentions))

ToSend(mentions) == SubSeq(mentions, 1, Min(Len(mentions), MAX_SLACK_ALERTS))
Remaining(mentions) == SubSeq(mentions, MAX_SLACK_ALERTS + 1, Len(mentions))

\* A run with no cold-start guard: a missing watermark is read as "the
\* beginning of time" and the run goes on to fetch and notify.
BranchNoColdStart(since_str) ==
    IF Truthy(since_str) /\ SafeParseDt(since_str).k # "iso" THEN "reset"
    ELSE "normal"

\* A run that reads a broken watermark as the beginning of time and goes on.
BranchResetAsNormal(since_str) ==
    IF ~Truthy(since_str) THEN "bootstrap" ELSE "normal"

\* The branch run() takes on the value of meta_get_since: first run, broken
\* value, or a normal run.
BranchOnSince(since_str) ==
    IF ~Truthy(since_str) THEN "bootstrap"
    ELSE IF SafeParseDt(since_str).k # "iso" THEN "reset"
    ELSE "normal"

\* A run that stores today's midnight (KST) as the watermark.
SinceToStoreMidnight(now, since) == Iso(TodayMidnightKstUtc(now))

\* A run that stores the clamped lower bound as the watermark.
SinceToStoreLowerBound(now, since) == Iso(since)

\* The value run() hands to meta_set_since.
SinceToStore(now, since) == Iso(now)

----------------------------------------------------------------------------
(* The order of the steps of run() that talk to the sheet, the sources and *)
(* Slack.  "persist", "notify" and "digest" form the body of               *)
(* `if new_mentions:`.                                                     *)

\* run() with the Slack posts placed before the rows are appended.
RunOrderNotifyFirst ==
    <<"connect", "load_since", "fetch_rss", "fetch_gdelt", "load_ids",
      "notify", "digest", "persist", "advance">>

\* run() with the watermark advanced as soon as the sources are fetched.
RunOrderAdvanceEarly ==
    <<"connect", "load_since", "fetch_rss", "fetch_gdelt", "advance",
      "load_ids", "persist", "notify", "digest">>

RunOrder == <<"connect", "load_since", "fetch_rss", "fetch_gdelt", "load_ids",
              "persist", "notify", "digest", "advance">>

IfNewBlock == {"persist", "notify", "digest"}

StepIndex(step) == CHOOSE i \in DOMAIN RunOrder : RunOrder[i] = step

\* The first step after `step` that is not skipped; "done" at the end of run().
NextStep(step, skipped) ==
    LET later == {i \in DOMAIN RunOrder :
                    i > StepIndex(step) /\ RunOrder[i] \notin skipped}
    IN  IF later = {} THEN "done"
        ELSE RunOrder[CHOOSE i \in later : \A j \in later : i <= j]

----------------------------------------------------------------------------
(* Inputs: instants, URLs, feed contents *)

\* 01:00 KST on some day.
T0 == 10 * Day - KstOffset + 60 * 60

\* The last second of the KST day of T0.
T1 == TodayMidnightKstUtc(T0) + Day - 1

Nows == {T0, T1}

\* What datetime.now can show in today_midnight_kst_utc, a moment after
\* run() read now_utc: the same second, the next one, or an earlier one when
\* the wall clock was stepped back in between.
SecondReadings(now) == {now - 1, now, now + 1}

Host == <<"N", "e", "w", "s", ".", "c", "o", "m">>
HostLower == <<"n", "e", "w", "s", ".", "c", "o", "m">>

UrlA == [scheme |-> "https", netloc |-> Host, path |-> "/a",
         query |-> <<[k |-> <<"U", "T", "M", "_", "s">>, v |-> "x"],
                     [k |-> <<"i", "d">>, v |-> "1"],
                     [k |-> <<"f", "b", "c", "l", "i", "d">>, v |-> "y"]>>,
         fragment |-> "top"]
UrlAPlain == [scheme |-> "https", netloc |-> HostLower, path |-> "/a",
              query |-> <<[k |-> <<"i", "d">>, v |-> "1"]>>, fragment |-> ""]
UrlB == [scheme |-> "https", netloc |-> HostLower, path |-> "/b",
         query |-> <<>>, fragment |-> ""]
UrlC == [scheme |-> "https", netloc |-> HostLower, path |-> "/c",
         query |-> <<>>, fragment |-> ""]
UrlN(i) == [scheme |-> "https", netloc |-> HostLower, path |-> "/n",
            query |-> <<[k |-> <<"i", "d">>, v |-> ToString(i)]>>,
            fragment |-> ""]

EntryA == [title |-> "a", link |-> UrlA, published |-> Iso(T0 - 30)]
EntryA2 == [title |-> "a again", link |-> UrlAPlain, published |-> Iso(T0 - 20)]
EntryB == [title |-> "b", link |-> UrlB, published |-> Iso(T0 + 8 * 60)]
EntryC == [title |-> "c", link |-> UrlC, published |-> Iso(T0 + 60)]
EntryNoDate == [title |-> "x", link |-> UrlC, published |-> NoText]
EntryBadDate == [title |-> "y", link |-> UrlB, published |-> BadText]
EntryN(i) == [title |-> "n", link |-> UrlN(i), published |-> Iso(T0 - 10)]

\* Entries published around the stored watermark T0 - 60 and around the
\* future cutoff of a run at T0.
UrlE(i) == [scheme |-> "https", netloc |-> HostLower, path |-> "/e",
            query |-> <<[k |-> <<"i", "d">>, v |-> ToString(i)]>>,
            fragment |-> ""]
EntryBeforeSince == [title |-> "e1", link |-> UrlE(1), published |-> Iso(T0 - 61)]
EntryAtSince == [title |-> "e2", link |-> UrlE(2), published |-> Iso(T0 - 60)]
EntryAtSkew == [title |-> "e3", link |-> UrlE(3), published |-> Iso(T0 + FutureSkew)]
EntryPastSkew == [title |-> "e4", link |-> UrlE(4),
                  published |-> Iso(T0 + FutureSkew + 1)]

\* A dated entry that has no <title>.
EntryNoTitle == [link |-> UrlB, published |-> Iso(T0 - 30)]

BigFeed == [i \in 1..BigLen |-> EntryN(i)]

RssFeeds == { <<>>, <<EntryA>>, <<EntryA, EntryA2>>, <<EntryB, EntryC>>,
              <<EntryNoDate, EntryC, EntryBadDate>>,
              <<EntryBeforeSince, EntryAtSince, EntryAtSkew, EntryPastSkew>>,
              <<EntryA, EntryNoTitle>>,
              BigFeed }

ArticleA == [title |-> "a", url |-> UrlAPlain, seendate |-> Iso(T0 - 30)]
ArticleOld == [title |-> "old", url |-> UrlB,
               seendate |-> Iso(T0 - (MAX_LOOKBACK_DAYS + 1) * Day)]
ArticleYesterday == [title |-> "yesterday", url |-> UrlC,
                     seendate |-> Iso(T0 - 2 * 60 * 60)]
ArticleBad == [title |-> "bad", url |-> UrlC, seendate |-> BadText]
\* Articles seen one second before, and at, 00:00 KST of the day of T0.
ArticleBeforeMidnight == [title |-> "late", url |-> UrlE(5),
                          seendate |-> Iso(T0 - 60 * 60 - 1)]
ArticleAtMidnight == [title |-> "midnight", url |-> UrlE(6),
                      seendate |-> Iso(T0 - 60 * 60)]

GdeltFeeds == { <<>>, <<ArticleA>>,
                <<ArticleOld, ArticleYesterday, ArticleBeforeMidnight,
                  ArticleAtMidnight>>,
                <<ArticleBad, ArticleA>> }

InitMeta ==
    { <<MetaHeader>>,
      <<MetaHeader, [key |-> "since", val |-> EmptyText]>>,
      <<MetaHeader, [key |-> "since", val |-> BlankText]>>,
      <<MetaHeader, [key |-> "since", val |-> BadText]>>,
      <<MetaHeader, [key |-> "since", val |-> Iso(T0 - 2 * 60 * 60)]>>,
      <<MetaHeader, [key |-> "note", val |-> BadText],
        [key |-> "since", val |-> Iso(T0 - 60)]>> }

\* The environment: everything set, or one required setting missing.
Configs == {Required} \cup {Required \ {name} : name \in Required}

\* sheet1 as deployed: blank, or holding its header row.
InitSheet == { <<>>, <<HeaderRow>> }

----------------------------------------------------------------------------
(* State machine *)

Init ==
    /\ config \in Configs
    /\ clock = T0 - 1
    /\ pc = "idle"
    /\ now_utc = T0
    /\ midnight_utc = TodayMidnightKstUtc(T0)
    /\ since_dt = T0
    /\ mode = "normal"
    /\ meta_ws \in InitMeta
    /\ ws \in InitSheet
    /\ rss_feed = <<>>
    /\ rss_results = <<>>
    /\ gdelt_feed = <<>>
    /\ gdelt_attempt = 1
    /\ gdelt_waits = <<>>
    /\ gdelt_status = "pending"
    /\ all_results = <<>>
    /\ filtered = <<>>
    /\ existing_ids = {}
    /\ new_mentions = <<>>
    /\ sent = 0
    /\ notified = <<>>
    /\ storeOps = <<>>
    /\ failure = "none"
    /\ meta0 = meta_ws
    /\ ws0 = ws
    /\ prev_ok = FALSE
    /\ prev_results = <<>>
    /\ reset_at = 0
    /\ orphaned = {}

locals == <<rss_feed, rss_results, gdelt_feed, gdelt_attempt, gdelt_waits,
            gdelt_status, all_results, filtered, existing_ids,
            new_mentions, sent, notified>>
history == <<prev_ok, prev_results, reset_at, orphaned>>
atStart == <<meta0, ws0>>

\* run() is entered: now_utc is taken from the clock, which has moved on
\* since the run before.
StartRun ==
    /\ pc = "idle"
    /\ \E now \in Nows :
        /\ now > clock
        /\ clock' = now
        /\ now_utc' = IF RunRaisesAtEntry(config) THEN now_utc ELSE now
        /\ \E again \in SecondReadings(now) :
              midnight_utc' = IF RunRaisesAtEntry(config) THEN midnight_utc
                              ELSE TodayMidnightKstUtc(again)
    /\ IF RunRaisesAtEntry(config)
       THEN pc' = "failed" /\ failure' = "config"
       ELSE pc' = RunOrder[1] /\ UNCHANGED failure
    /\ meta0' = meta_ws
    /\ ws0' = ws
    /\ UNCHANGED <<config, since_dt, mode, meta_ws, ws, locals, storeOps, history>>

\* A sheet call raises: run() ends with the exception.
StoreFails(op) ==
    /\ pc' = "failed"
    /\ failure' = "store"
    /\ storeOps' = Append(storeOps, op \o "!")
    /\ UNCHANGED <<config, clock, now_utc, midnight_utc, since_dt, mode, meta_ws, ws, locals,
                   atStart, history>>

\* get_worksheets
Connect ==
    /\ pc = "connect"
    /\ ~GspreadClientRaises(config)
    /\ pc' = NextStep("connect", {})
    /\ storeOps' = Append(storeOps, "connect")
    /\ UNCHANGED <<config, clock, now_utc, midnight_utc, since_dt, mode, meta_ws, ws, locals,
                   failure, atStart, history>>

ConnectFails ==
    /\ pc = "connect"
    /\ ~GspreadClientRaises(config)
    /\ StoreFails("connect")

\* get_gspread_client raises for a missing setting: run() ends with the
\* exception before any request to the sheet.
ConnectUnconfigured ==
    /\ pc = "connect"
    /\ GspreadClientRaises(config)
    /\ pc' = "failed"
    /\ failure' = "config"
    /\ UNCHANGED <<config, clock, now_utc, midnight_utc, since_dt, mode, meta_ws, ws, locals,
                   storeOps, atStart, history>>

\* meta_get_since and the branch on its value
LoadSince ==
    /\ pc = "load_since"
    /\ storeOps' = Append(storeOps, "get_since")
    /\ LET since_str == MetaGetSince(meta_ws)
           branch == BranchOnSince(since_str)
       IN  /\ mode' = branch
           /\ IF branch = "normal"
              THEN /\ pc' = NextStep("load_since", {})
                   /\ since_dt' = ClampSince(SafeParseDt(since_str).t,
                                             midnight_utc)
              ELSE /\ pc' = branch
                   /\ UNCHANGED since_dt
    /\ UNCHANGED <<config, clock, now_utc, midnight_utc, meta_ws, ws, locals, failure, atStart,
                   history>>

LoadSinceFails ==
    /\ pc = "load_since"
    /\ StoreFails("get_since")

\* meta_set_since(now) and return, on the first run or on a broken value
SetSinceAndReturn ==
    /\ pc \in {"bootstrap", "reset"}
    /\ meta_ws' = MetaSetSince(meta_ws, SinceToStore(now_utc, since_dt))
    /\ storeOps' = Append(storeOps, "set_since")
    /\ pc' = "done"
    /\ UNCHANGED <<config, clock, now_utc, midnight_utc, since_dt, mode, ws, locals, failure,
                   atStart, history>>

SetSinceAndReturnFails ==
    /\ pc \in {"bootstrap", "reset"}
    /\ StoreFails("set_since")

\* all_results = [] and all_results += fetch_google_news_rss(...)
FetchRss ==
    /\ pc = "fetch_rss"
    /\ \E entries \in RssFeeds :
        /\ ~RssRaises(entries)
        /\ rss_feed' = entries
        /\ rss_results' = FetchGoogleNewsRss(entries)
        /\ all_results' = all_results \o FetchGoogleNewsRss(entries)
    /\ gdelt_attempt' = 1
    /\ gdelt_waits' = <<>>
    /\ gdelt_status' = "pending"
    /\ pc' = NextStep("fetch_rss", {})
    /\ UNCHANGED <<config, clock, now_utc, midnight_utc, since_dt, mode,
                   meta_ws, ws, gdelt_feed, filtered, existing_ids,
                   new_mentions, sent, notified, storeOps, failure, atStart,
                   history>>

\* fetch_google_news_rss raises: run() ends with the exception.
FetchRssRaises ==
    /\ pc = "fetch_rss"
    /\ \E entries \in RssFeeds : RssRaises(entries)
    /\ pc' = "failed"
    /\ failure' = "source"
    /\ UNCHANGED <<config, clock, now_utc, midnight_utc, since_dt, mode, meta_ws, ws, locals,
                   storeOps, atStart, history>>

\* fetch_gdelt has returned `gdelt`: all_results += gdelt, and the date
\* filter runs on all_results.
Fetched(gdelt) ==
    /\ all_results' = all_results \o gdelt
    /\ filtered' = DateFilter(all_results \o gdelt, now_utc, midnight_utc,
                              since_dt)
    /\ pc' = NextStep("fetch_gdelt", {})

\* fetch_gdelt: an attempt that ends in `continue` or in the except clause
GdeltAttemptFails ==
    /\ pc = "fetch_gdelt"
    /\ \E why \in GdeltFailures :
        IF MoreAttempts(gdelt_attempt, GDELT_RETRIES)
        THEN /\ gdelt_attempt' = gdelt_attempt + 1
             /\ gdelt_waits' = Append(gdelt_waits, GdeltWait(gdelt_attempt))
             /\ UNCHANGED <<pc, gdelt_feed, gdelt_status, all_results, filtered>>
        ELSE /\ Fetched(<<>>)
             /\ gdelt_status' = "gave_up"
             /\ UNCHANGED <<gdelt_attempt, gdelt_waits, gdelt_feed>>
    /\ UNCHANGED <<config, clock, now_utc, midnight_utc, since_dt, mode, meta_ws, ws, rss_feed,
                   rss_results, existing_ids, new_mentions, sent, notified,
                   storeOps, failure, atStart, history>>

\* fetch_gdelt: an attempt that gets JSON and returns its articles
GdeltAttemptOk ==
    /\ pc = "fetch_gdelt"
    /\ \E articles \in GdeltFeeds :
        /\ gdelt_feed' = articles
        /\ Fetched(ParseGdelt(articles))
    /\ gdelt_status' = "returned"
    /\ UNCHANGED <<config, clock, now_utc, midnight_utc, since_dt, mode, meta_ws, ws, rss_feed,
                   rss_results, gdelt_attempt, gdelt_waits, existing_ids,
                   new_mentions, sent,
                   notified, storeOps, failure, atStart, history>>

\* sheet_get_existing_ids and the dedup loop
LoadIds ==
    /\ pc = "load_ids"
    /\ storeOps' = Append(storeOps, "get_ids")
    /\ LET existing == SheetGetExistingIds(ws, SHEET_ID_LOAD_LIMIT)
           fresh == Dedup(filtered, existing, Iso(now_utc))
       IN  /\ existing_ids' = existing
           /\ new_mentions' = fresh
           \* filtered holds the very dicts of all_results that passed the
           \* date filter, so both lists show what the loop wrote.
           /\ filtered' = [i \in DOMAIN filtered |->
                              Stamped(filtered[i], existing, Iso(now_utc))]
           /\ all_results' =
                 [i \in DOMAIN all_results |->
                     IF Accepted(all_results[i], now_utc, midnight_utc, since_dt)
                     THEN Stamped(all_results[i], existing, Iso(now_utc))
                     ELSE all_results[i]]
           /\ pc' = IF fresh # <<>> THEN NextStep("load_ids", {})
                    ELSE NextStep("load_ids", IfNewBlock)
    /\ UNCHANGED <<config, clock, now_utc, midnight_utc, since_dt, mode,
                   meta_ws, ws, rss_feed, rss_results, gdelt_feed,
                   gdelt_attempt, gdelt_waits, gdelt_status, sent, notified,
                   failure, atStart, history>>

LoadIdsFails ==
    /\ pc = "load_ids"
    /\ StoreFails("get_ids")

\* sheet_append_rows
Persist ==
    /\ pc = "persist"
    /\ ws' = SheetAppendRows(ws, Rows(new_mentions))
    /\ storeOps' = Append(storeOps, "append")
    /\ pc' = NextStep("persist", {})
    /\ UNCHANGED <<config, clock, now_utc, midnight_utc, since_dt, mode, meta_ws, locals,
                   failure, atStart, history>>

PersistFails ==
    /\ pc = "persist"
    /\ StoreFails("append")

\* After the last individual alert: the digest if there is a remainder.
AfterAlerts(n) ==
    IF n < Len(ToSend(new_mentions)) THEN "notify"
    ELSE IF Remaining(new_mentions) # <<>> THEN NextStep("notify", {})
    ELSE NextStep("notify", {"digest"})

\* slack_post_mention for the next mention of to_send
NotifyMention ==
    /\ pc = "notify"
    /\ sent < Len(ToSend(new_mentions))
    /\ ~SlackHeadersRaises(config)
    /\ \E r \in SlackOutcomes :
        LET m == ToSend(new_mentions)[sent + 1]
        IN  /\ notified' = Append(notified,
                    [kind |-> "mention", ids |-> <<m.id>>, result |-> r])
            /\ IF SlackPostMention(r) = "ok"
               THEN /\ sent' = sent + 1
                    /\ pc' = AfterAlerts(sent + 1)
                    /\ UNCHANGED failure
               ELSE /\ pc' = "failed"
                    /\ failure' = "notify"
                    /\ UNCHANGED sent
    /\ UNCHANGED <<config, clock, now_utc, midnight_utc, since_dt, mode, meta_ws, ws, rss_feed,
                   rss_results, gdelt_feed, gdelt_attempt, gdelt_waits,
                   gdelt_status, all_results, filtered,
                   existing_ids, new_mentions, storeOps, atStart, history>>

\* slack_post_mention without a usable token: slack_headers raises inside
\* slack_post_with_retry before the first request, and run() ends with the
\* exception.
NotifyUnconfigured ==
    /\ pc = "notify"
    /\ sent < Len(ToSend(new_mentions))
    /\ SlackHeadersRaises(config)
    /\ pc' = "failed"
    /\ failure' = "config"
    /\ UNCHANGED <<config, clock, now_utc, midnight_utc, since_dt, mode, meta_ws, ws, locals,
                   storeOps, atStart, history>>

\* slack_post_digest for the mentions beyond the cap (reached only after
\* individual alerts were posted, so with a token)
NotifyDigest ==
    /\ pc = "digest"
    /\ ~SlackHeadersRaises(config)
    /\ \E r \in SlackOutcomes :
        LET rest == Remaining(new_mentions)
        IN  /\ notified' = Append(notified,
                    [kind |-> "digest",
                     ids |-> [i \in DOMAIN rest |-> rest[i].id],
                     result |-> r])
            /\ IF SlackPostDigest(r) = "raise"
               THEN /\ pc' = "failed"
                    /\ failure' = "notify"
               ELSE /\ pc' = NextStep("digest", {})
                    /\ UNCHANGED failure
    /\ UNCHANGED <<config, clock, now_utc, midnight_utc, since_dt, mode, meta_ws, ws, rss_feed,
                   rss_results, gdelt_feed, gdelt_attempt, gdelt_waits,
                   gdelt_status, all_results, filtered,
                   existing_ids, new_mentions, sent, storeOps, atStart, history>>

\* meta_set_since(now) at the end of run()
Advance ==
    /\ pc = "advance"
    /\ meta_ws' = MetaSetSince(meta_ws, SinceToStore(now_utc, since_dt))
    /\ storeOps' = Append(storeOps, "set_since")
    /\ pc' = NextStep("advance", {})
    /\ UNCHANGED <<config, clock, now_utc, midnight_utc, since_dt, mode, ws, locals, failure,
                   atStart, history>>

AdvanceFails ==
    /\ pc = "advance"
    /\ StoreFails("set_since")

\* What the two fetch calls of this run returned, as returned.
SourceResults ==
    rss_results \o (IF gdelt_status = "returned" THEN ParseGdelt(gdelt_feed)
                    ELSE <<>>)

\* run() has returned or raised; the scheduler may start the next run.
EndRun ==
    /\ pc \in {"done", "failed"}
    /\ pc' = "idle"
    /\ prev_ok' = (pc = "done" /\ mode = "normal")
    /\ prev_results' = IF pc = "done" /\ mode = "normal" THEN SourceResults
                       ELSE <<>>
    /\ reset_at' = IF pc = "done" /\ mode = "reset" THEN now_utc ELSE reset_at
    /\ orphaned' = IF failure \in {"notify", "config"}
                   THEN orphaned \cup {new_mentions[i].id : i \in DOMAIN new_mentions}
                   ELSE orphaned
    /\ rss_feed' = <<>>
    /\ rss_results' = <<>>
    /\ gdelt_feed' = <<>>
    /\ gdelt_attempt' = 1
    /\ gdelt_waits' = <<>>
    /\ gdelt_status' = "pending"
    /\ all_results' = <<>>
    /\ filtered' = <<>>
    /\ existing_ids' = {}
    /\ new_mentions' = <<>>
    /\ sent' = 0
    /\ notified' = <<>>
    /\ storeOps' = <<>>
    /\ failure' = "none"
    /\ mode' = "normal"
    /\ UNCHANGED <<config, clock, now_utc, midnight_utc, since_dt, meta_ws, ws, atStart>>

Next ==
    \/ StartRun
    \/ Connect \/ ConnectFails \/ ConnectUnconfigured
    \/ LoadSince \/ LoadSinceFails
    \/ SetSinceAndReturn \/ SetSinceAndReturnFails
    \/ FetchRss \/ FetchRssRaises
    \/ GdeltAttemptFails \/ GdeltAttemptOk
    \/ LoadIds \/ LoadIdsFails
    \/ Persist \/ PersistFails
    \/ NotifyMention \/ NotifyUnconfigured \/ NotifyDigest
    \/ Advance \/ AdvanceFails
    \/ EndRun

Spec == Init /\ [][Next]_vars

----------------------------------------------------------------------------
(* Claims *)

Since(values) == MetaGetSince(values)
ReadSince == "get_since" \in Range(storeOps)
Count(ops, op) == Len(SelectSeq(ops, LAMBDA o : o = op))
NotifiedIds == UNION {Range(notified[i].ids) : i \in DOMAIN notified}
HasFetched == pc \in {"load_ids", "persist", "notify", "digest", "advance", "done"}
            \/ (pc = "failed" /\ "get_ids" \in Range(storeOps))
            \/ (pc = "failed" /\ "get_ids!" \in Range(storeOps))

\* C1: a run that reads the store and finds no watermark sends no
\* notification, appends no row, can only fail on the watermark write itself,
\* and when it ends successfully the stored watermark is its start instant.
C1_FirstRunSilent ==
    (ReadSince /\ ~Truthy(Since(meta0))) =>
        /\ notified = <<>>
        /\ ws = ws0
        /\ pc \in {"bootstrap", "done", "failed"}
        /\ (pc = "failed" => storeOps[Len(storeOps)] = "set_since!")
        /\ (pc = "done" => Since(meta_ws) = Iso(now_utc))

C1_Witness ==
    /\ pc = "done"
    /\ ReadSince
    /\ ~Truthy(Since(meta0))
    /\ Since(meta_ws) = Iso(now_utc)
    /\ now_utc # T0

\* C2: once any notification of a run has been attempted, every mention of
\* the run's new list is a row this run appended to the sheet.
C2_PersistBeforeNotify ==
    notified # <<>> =>
        \A i \in DOMAIN new_mentions :
            \E j \in DOMAIN ws :
                /\ j > Len(ws0)
                /\ ws[j] = Rows(new_mentions)[i]

C2_Witness ==
    /\ pc = "notify"
    /\ Len(notified) = 1
    /\ Len(new_mentions) >= 2

\* C3: when the previous run ended successfully and this run fetched exactly
\* the same results, this run sends no notification and appends no row.
C3_Idempotent ==
    (prev_ok /\ HasFetched /\ SourceResults = prev_results) =>
        /\ notified = <<>>
        /\ ws = ws0

\* C4: no run notifies a mention that an earlier run persisted before
\* failing while notifying.
C4_NoRenotifyAfterFailure ==
    NotifiedIds \cap orphaned = {}

\* C5: the new list of a run never holds two mentions with the same
\* identifier.
C5_BatchInternalDedup ==
    \A i, j \in DOMAIN new_mentions :
        i < j => new_mentions[i].id # new_mentions[j].id

\* C6: the sheet never holds two rows with the same identifier.
C6_NoDuplicateRows ==
    \A i, j \in DOMAIN ws : i < j => ws[i].id # ws[j].id

\* C7: when a notification of the run did not succeed, the run has failed,
\* that notification is the last one of the run, the appended rows are in
\* the sheet and the watermark is as it was at run start.
C7_NotifyFailureFatal ==
    \A i \in DOMAIN notified :
        notified[i].result # "ok" =>
            /\ pc = "failed"
            /\ i = Len(notified)
            /\ ws = ws0 \o Rows(new_mentions)
            /\ meta_ws = meta0

\* C8: a failed run leaves the meta sheet as it was at run start and has
\* made no watermark write.
C8_FailedRunKeepsWatermark ==
    pc = "failed" =>
        /\ meta_ws = meta0
        /\ Count(storeOps, "set_since") = 0

C8_Witness ==
    /\ pc = "failed"
    /\ failure = "store"
    /\ storeOps[Len(storeOps)] = "append!"
    /\ Since(meta0).k = "iso"

\* C9: the stored watermark never moves to an earlier instant.
C9_WatermarkMonotone ==
    [][(Since(meta_ws).k = "iso" /\ Since(meta_ws').k = "iso")
           => Since(meta_ws').t >= Since(meta_ws).t]_vars

C9_Witness ==
    /\ pc = "done"
    /\ mode = "normal"
    /\ Since(meta0).k = "iso"
    /\ Since(meta_ws).t > Since(meta0).t
    /\ since_dt # Since(meta0).t

\* C10: a run that has ended successfully made exactly one watermark write,
\* that write is its last sheet operation, and the stored watermark is the
\* run's start instant.
C10_AdvanceOnceAtEnd ==
    pc = "done" =>
        /\ Count(storeOps, "set_since") = 1
        /\ storeOps[Len(storeOps)] = "set_since"
        /\ Since(meta_ws) = Iso(now_utc)

C10_Witness ==
    /\ pc = "done"
    /\ mode = "normal"
    /\ new_mentions # <<>>
    /\ since_dt # now_utc
    /\ Since(meta_ws) = Iso(now_utc)

\* C11: with n new mentions and cap C, the k-th notification of a run
\* (k <= min(n, C)) is the individual alert of the k-th new mention; a
\* (C+1)-th notification exists only if n > C and is the digest of mentions
\* C+1..n; there are no more; and once the run is past notifying there are
\* exactly min(n, C) alerts, plus one digest iff n > C.
C11_CapAndDigest ==
    LET n == Len(new_mentions)
        C == MAX_SLACK_ALERTS
        single == IF n < C THEN n ELSE C
        total == IF n > C THEN single + 1 ELSE single
    IN  /\ Len(notified) <= total
        /\ \A k \in DOMAIN notified :
              IF k <= single
              THEN /\ notified[k].kind = "mention"
                   /\ notified[k].ids = <<new_mentions[k].id>>
              ELSE /\ notified[k].kind = "digest"
                   /\ notified[k].ids = [i \in 1..(n - C) |-> new_mentions[C + i].id]
        /\ pc \in {"advance", "done"} => Len(notified) = total

C11_Witness ==
    /\ pc = "advance"
    /\ Len(new_mentions) = MAX_SLACK_ALERTS + 2
    /\ Len(notified) = MAX_SLACK_ALERTS + 1
    /\ notified[MAX_SLACK_ALERTS + 1].kind = "digest"
    /\ Len(notified[MAX_SLACK_ALERTS + 1].ids) = 2

\* C12: once a run has fetched, filtered holds, in order, exactly the fetched
\* items whose published_at p satisfies hard_floor <= p <= upper_bound and
\* p >= lower_bound, with hard_floor = now - 7 days, upper_bound = now + 5
\* minutes, lower_bound = max(watermark, local_day_start), local_day_start
\* being the most recent KST midnight at the run's instant now: the d with
\* d <= now < d + 1 day.  Every bound is inclusive.
C12_TimeWindow ==
    (HasFetched /\ mode = "normal") =>
        LET watermark == Since(meta0).t
            d == TodayMidnightKstUtc(now_utc)
            lower_bound == IF watermark > d THEN watermark ELSE d
            hard_floor == now_utc - 7 * 24 * 60 * 60
            upper_bound == now_utc + 5 * 60
            InWindow(m) ==
                /\ hard_floor <= m.published_at.t
                /\ m.published_at.t <= upper_bound
                /\ m.published_at.t >= lower_bound
        IN  /\ d <= now_utc
            /\ now_utc < d + 24 * 60 * 60
            /\ (d + 9 * 60 * 60) % (24 * 60 * 60) = 0
            /\ filtered = SelectSeq(all_results, InWindow)

\* The items the two sources offered in this run, as read from the feeds.
RawItems ==
    {[source |-> "GoogleNewsRSS", title |-> rss_feed[i].title,
      url |-> rss_feed[i].link, published |-> rss_feed[i].published]
        : i \in DOMAIN rss_feed}
    \cup {[source |-> "GDELT", title |-> gdelt_feed[i].title,
           url |-> gdelt_feed[i].url, published |-> gdelt_feed[i].seendate]
            : i \in DOMAIN gdelt_feed}

\* C13: a feed item whose publication time is missing or does not parse is
\* not among the filtered items, is not in a row appended by this run and is
\* not notified; and every fetched or filtered item carries the publication
\* time its feed gave, never a substituted one.
C13_UndatedNeverPasses ==
    LET undated == {r \in RawItems : r.published.k \in {"none", "empty", "blank", "bad"}}
        IsOne(m, r) == m.source = r.source /\ m.title = r.title
        appended == {ws[i] : i \in (Len(ws0) + 1)..Len(ws)}
    IN  /\ \A r \in undated :
              /\ \A m \in Range(filtered) : ~IsOne(m, r)
              /\ \A m \in Range(new_mentions) : ~IsOne(m, r)
              /\ \A row \in appended : ~IsOne(row, r)
        /\ \A id \in NotifiedIds :
              \E m \in Range(new_mentions) :
                  /\ m.id = id
                  /\ \A r \in undated : ~IsOne(m, r)
        /\ \A m \in Range(all_results) \cup Range(filtered) :
              \E r \in RawItems :
                  /\ IsOne(m, r)
                  /\ m.published_at = r.published

C13_Witness ==
    /\ pc = "advance"
    /\ \E i \in DOMAIN rss_feed : rss_feed[i].published.k = "none"
    /\ \E i \in DOMAIN rss_feed : rss_feed[i].published.k = "bad"
    /\ \E i \in DOMAIN gdelt_feed : gdelt_feed[i].seendate.k = "bad"
    /\ Len(filtered) = 2
    /\ Len(notified) = 2

\* The dedup loop of this run has run.
HasDeduped == pc \in {"persist", "notify", "digest", "advance", "done"}
              \/ (pc = "failed" /\ "get_ids" \in Range(storeOps))

\* C14: after the dedup step, with seen the set of ids loaded from the sheet
\* as it was before the step: the candidates whose id is in seen are absent
\* from new_mentions, all the others are present, once each and in the
\* order of the candidates; and seen is still the set that was loaded.
C14_StablePartition ==
    HasDeduped =>
        LET seen == SheetGetExistingIds(ws0, SHEET_ID_LOAD_LIMIT)
            Id(i) == MakeId(filtered[i].source, filtered[i].url)
            kept == {i \in DOMAIN filtered : Id(i) \notin seen}
            skipped == {i \in DOMAIN filtered : Id(i) \in seen}
            Nth(k) == CHOOSE i \in kept : Cardinality({j \in kept : j < i}) = k - 1
        IN  /\ existing_ids = seen
            /\ Len(new_mentions) = Cardinality(kept)
            /\ Len(new_mentions) + Cardinality(skipped) = Len(filtered)
            /\ \A k \in DOMAIN new_mentions :
                  /\ new_mentions[k].id = Id(Nth(k))
                  /\ new_mentions[k].source = filtered[Nth(k)].source
                  /\ new_mentions[k].title = filtered[Nth(k)].title
                  /\ new_mentions[k].published_at = filtered[Nth(k)].published_at
                  /\ new_mentions[k].id \notin seen

C14_Witness ==
    /\ pc = "persist"
    /\ Len(filtered) = 2
    /\ Len(new_mentions) = 1
    /\ new_mentions[1].title = filtered[1].title
    /\ MakeId(filtered[2].source, filtered[2].url) \in existing_ids

\* C15: no run is aborted by the failure of one source: a source that fails
\* contributes nothing and the run goes on with the other source's items.
C15_SourceFailureTolerated == failure # "source"

\* C16: in an environment that lacks a required setting, a run never gets
\* past its start: it makes no sheet call, fetches no source, appends no row
\* and requests no notification.
C16_ConfigAbortsBeforeNetwork ==
    config # Required =>
        /\ pc \in {"idle", "connect", "failed"}
        /\ storeOps = <<>>
        /\ all_results = <<>>
        /\ ws = ws0
        /\ notified = <<>>

\* Ways to change a URL without changing what it points to: a fragment, the
\* host in capitals, and a tracking parameter put anywhere in the query.
Fragments == {"", "s2"}
NoiseKeys == { <<"u", "t", "m", "_", "s", "o", "u", "r", "c", "e">>,
               <<"U", "t", "m", "_", "I", "D">>,
               <<"F", "B", "C", "L", "I", "D">>,
               <<"g", "c", "l", "i", "d">>,
               <<"M", "c", "_", "C", "i", "d">>,
               <<"m", "c", "_", "e", "i", "D">> }
UpperOf == [c \in {LowerLetters[i] : i \in DOMAIN LowerLetters} |->
               UpperLetters[CHOOSE i \in DOMAIN LowerLetters : LowerLetters[i] = c]]
UpperChar(c) == IF c \in DOMAIN UpperOf THEN UpperOf[c] ELSE c
InsertAt(q, pos, pair) ==
    [i \in 1..(Len(q) + 1) |->
        IF i <= pos THEN q[i] ELSE IF i = pos + 1 THEN pair ELSE q[i - 1]]
Variants(u) ==
    {[scheme |-> u.scheme, netloc |-> host, path |-> u.path,
      query |-> query, fragment |-> f] :
        host \in {u.netloc, [i \in DOMAIN u.netloc |-> UpperChar(u.netloc[i])]},
        query \in {u.query}
                  \cup {InsertAt(u.query, pos, [k |-> key, v |-> "t"]) :
                            pos \in 0..Len(u.query), key \in NoiseKeys},
        f \in Fragments}

\* C17: when a run has computed the ids of its candidates, each item the
\* sources offered gets the same id from any URL that differs from its own
\* only by fragment,
\* by tracking parameters (utm_*, fbclid, gclid, mc_cid, mc_eid in any
\* letter-case) or by the letter-case of the host; and two new mentions have
\* the same id exactly when they have the same source and the same
\* normalized URL, whatever their titles and publication times.
C17_IdInvariance ==
    pc = "persist" =>
        /\ \A r \in RawItems :
              \A v \in Variants(r.url) :
                  MakeId(r.source, v) = MakeId(r.source, r.url)
        /\ \A m \in Range(new_mentions) :
              \E r \in RawItems :
                  /\ m.source = r.source /\ m.title = r.title
                  /\ m.id = MakeId(r.source, r.url)
        /\ \A k, l \in DOMAIN new_mentions :
              (new_mentions[k].id = new_mentions[l].id)
                  <=> /\ new_mentions[k].source = new_mentions[l].source
                      /\ new_mentions[k].url = new_mentions[l].url

C17_Witness ==
    /\ pc = "persist"
    /\ Len(new_mentions) = 2
    /\ Len(rss_feed) = 2
    /\ rss_feed[1].link # rss_feed[2].link
    /\ rss_feed[1].link.fragment # ""
    /\ rss_feed[1].link.netloc # rss_feed[2].link.netloc
    /\ Len(rss_feed[1].link.query) > Len(rss_feed[2].link.query)
    /\ new_mentions[1].source = "GoogleNewsRSS"
    /\ new_mentions[2].source = "GoogleNewsRSS"
    /\ new_mentions[1].id = new_mentions[2].id
    /\ new_mentions[1].title # new_mentions[2].title
    /\ new_mentions[1].published_at # new_mentions[2].published_at

\* C18: fetch_gdelt makes at most 3 attempts; a failed attempt is followed
\* by the next one only while fewer than 3 were made; the attempt that
\* succeeds ends the fetch with the items parsed from its answer and no
\* attempt follows it; and after a third failure the fetch ends with no
\* items and the run goes on (it does not raise).
C18_BoundedRetry ==
    [][ /\ gdelt_attempt' \in 1..3
        /\ (pc = "fetch_gdelt" /\ pc' = "fetch_gdelt" /\ gdelt_attempt' # gdelt_attempt)
              => /\ gdelt_attempt < 3
                 /\ gdelt_attempt' = gdelt_attempt + 1
                 /\ gdelt_status' = "pending"
        /\ (pc = "fetch_gdelt" /\ pc' # "fetch_gdelt")
              => /\ pc' = "load_ids"
                 /\ failure' = "none"
                 /\ gdelt_attempt' = gdelt_attempt
                 /\ \/ /\ gdelt_status' = "returned"
                       /\ all_results' = rss_results \o ParseGdelt(gdelt_feed')
                    \/ /\ gdelt_status' = "gave_up"
                       /\ gdelt_attempt = 3
                       /\ all_results' = rss_results
        /\ (pc \in {"load_ids", "persist", "notify", "digest", "advance"})
              => /\ gdelt_attempt' = gdelt_attempt \/ pc' = "idle"
                 /\ gdelt_status' = gdelt_status \/ pc' = "idle"
      ]_vars

C18_Witness ==
    /\ pc = "advance"
    /\ gdelt_status = "gave_up"
    /\ gdelt_attempt = 3
    /\ Len(all_results) = Len(rss_results)
    /\ \A m \in Range(all_results) : m.source = "GoogleNewsRSS"
    /\ Len(notified) > 0

\* C19: fetch_gdelt has waited after each failed attempt that was followed
\* by another one, for a positive time, and longer each time.
C19_GrowingWaitBetweenAttempts ==
    /\ Len(gdelt_waits) = gdelt_attempt - 1
    /\ \A i \in DOMAIN gdelt_waits : gdelt_waits[i] > 0
    /\ \A i, j \in DOMAIN gdelt_waits : i < j => gdelt_waits[i] < gdelt_waits[j]

\* C20: a run that reads a watermark that is there but does not parse
\* fetches nothing, appends no row and sends no notification; it can only
\* fail on the watermark write itself, and when it ends successfully the
\* stored watermark is its start instant.  In every later run, no mention
\* published before that instant is new, so none is notified.
C20_BrokenWatermarkReset ==
    /\ (ReadSince /\ Truthy(Since(meta0)) /\ SafeParseDt(Since(meta0)).k # "iso") =>
          /\ pc \in {"reset", "done", "failed"}
          /\ rss_feed = <<>> /\ gdelt_status = "pending" /\ all_results = <<>>
          /\ ws = ws0
          /\ notified = <<>>
          /\ (pc = "failed" => storeOps[Len(storeOps)] = "set_since!")
          /\ (pc = "done" => Since(meta_ws) = Iso(now_utc))
    /\ reset_at # 0 =>
          /\ \A m \in Range(new_mentions) : m.published_at.t >= reset_at
          /\ \A id \in NotifiedIds : \E m \in Range(new_mentions) : m.id = id

C20_Witness ==
    /\ reset_at # 0
    /\ pc = "advance"
    /\ Since(meta0) = Iso(reset_at)
    /\ \E m \in Range(all_results) : m.published_at.t < reset_at
    /\ Len(notified) > 0

====
